---- MODULE Spec2Model ----
(***************************************************************************)
(* Model of the draft-order relay of src/server.js: POST /create-draft-order*)
(* authenticates the caller, validates the body, exchanges the application *)
(* credentials for an access token and sends one draftOrderCreate mutation. *)
(* The handler of the final revision (lines 517-605) is modelled step by    *)
(* step between its awaits; the third revision's authentication (lines      *)
(* 281-295) and messages are selected by the variable rev. A request is    *)
(* one whose JSON body express.json() (line 417) has parsed into req.body.  *)
(***************************************************************************)
EXTENDS Integers, Sequences, FiniteSets, TLC

VARIABLES rev, INBOUND_API_KEY, shopifyEnv,
          pc, req, tokReply, tokenPromise, accessToken, ordReply, calls, res,
          lastIssued

vars == <<rev, INBOUND_API_KEY, shopifyEnv,
          pc, req, tokReply, tokenPromise, accessToken, ordReply, calls, res,
          lastIssued>>

(***************************************************************************)
(* Bounds of the model.                                                    *)
(***************************************************************************)
NumReq == 2
MaxHdrLen == 3

Reqs == 1..NumReq

(***************************************************************************)
(* JavaScript values. Every value is a record whose field t is its type;   *)
(* strings of the JSON bodies carry a TLA+ string, header strings carry the *)
(* sequence of their characters (see HStr).                                *)
(***************************************************************************)
U == [t |-> "undefined"]
Null == [t |-> "null"]
Str(s) == [t |-> "string", v |-> s]
Num(n) == [t |-> "number", v |-> n]
Bool(b) == [t |-> "boolean", v |-> b]
Arr(s) == [t |-> "array", v |-> s]
Obj(f) == [t |-> "object", v |-> f]

Nullish(x) == x.t \in {"undefined", "null"}

\* !!x
Truthy(x) ==
  CASE x.t = "undefined" -> FALSE
    [] x.t = "null" -> FALSE
    [] x.t = "string" -> x.v # ""
    [] x.t = "number" -> x.v # 0
    [] x.t = "boolean" -> x.v
    [] OTHER -> TRUE

\* x.f for a value x that is not nullish (a missing property reads undefined)
Prop(x, f) == IF x.t = "object" /\ f \in DOMAIN x.v THEN x.v[f] ELSE U

\* x?.f
OptProp(x, f) == IF Nullish(x) THEN U ELSE Prop(x, f)

\* x ?? d
Coalesce(x, d) == IF Nullish(x) THEN d ELSE x

\* the default of a destructuring pattern: { x = d } = ...
Default(x, d) == IF x.t = "undefined" THEN d ELSE x

\* Array.isArray(x)
IsArray(x) == x.t = "array"

\* String(e) of a thrown error: its name and message, with the values the
\* message interpolates
ErrStr(m) == [t |-> "errstr", v |-> m]

\* how an evaluation ends: with a value, or with an error thrown
Returns(x) == [ok |-> TRUE, value |-> x]
Throws(e) == [ok |-> FALSE, error |-> e]

\* what String(x) throws for an object whose own toString is no function
ConvertError ==
  ErrStr([kind |-> "TypeError: Cannot convert object to primitive value"])

\* String(x) for the values a JSON body can carry (numbers are integers): the
\* text of a string, number or boolean, "undefined", "null", the elements of
\* an array joined by "," (a null element gives no text), "[object Object]"
\* for an object; an object with a key toString of its own makes it throw
RECURSIVE StringOf(_)
RECURSIVE JoinOf(_)
StringOf(x) ==
  CASE x.t = "string" -> Returns(x.v)
    [] x.t = "number" -> Returns(ToString(x.v))
    [] x.t = "boolean" -> Returns(IF x.v THEN "true" ELSE "false")
    [] x.t = "undefined" -> Returns("undefined")
    [] x.t = "null" -> Returns("null")
    [] x.t = "array" -> JoinOf(x.v)
    [] OTHER -> IF "toString" \in DOMAIN x.v THEN Throws(ConvertError)
                ELSE Returns("[object Object]")

\* Array.prototype.join(","), which String(array) calls: the elements are
\* converted from the first on
JoinOf(s) ==
  IF Len(s) = 0 THEN Returns("")
  ELSE LET first == IF Nullish(s[1]) THEN Returns("") ELSE StringOf(s[1])
       IN  IF ~first.ok THEN first
           ELSE IF Len(s) = 1 THEN first
           ELSE LET rest == JoinOf(Tail(s))
                IN  IF ~rest.ok THEN rest
                    ELSE Returns(first.value \o "," \o rest.value)

ToStr(x) ==
  LET text == StringOf(x)
  IN  IF text.ok THEN Returns(Str(text.value)) ELSE text

(***************************************************************************)
(* Header strings: the sequence of their characters. The word Bearer is one *)
(* element ("Bearer" or, in lower case, "bearer"), " " is a blank.          *)
(***************************************************************************)
HStr(s) == [t |-> "string", v |-> s]

HTruthy(x) == x.t = "string" /\ x.v # <<>>

IsSpace(c) == c = " "

IsBearerWord(c) == c \in {"Bearer", "bearer"}

RECURSIVE DropSpaces(_)
DropSpaces(s) ==
  IF s # <<>> /\ IsSpace(Head(s)) THEN DropSpaces(Tail(s)) ELSE s

RECURSIVE DropTrailingSpaces(_)
DropTrailingSpaces(s) ==
  IF s # <<>> /\ IsSpace(s[Len(s)])
  THEN DropTrailingSpaces(SubSeq(s, 1, Len(s) - 1))
  ELSE s

\* s.trim()
Trim(s) == DropTrailingSpaces(DropSpaces(s))

\* s.replace(/^Bearer\s+/i, "")
StripBearer(s) ==
  IF Len(s) >= 2 /\ IsBearerWord(s[1]) /\ IsSpace(s[2])
  THEN DropSpaces(Tail(s))
  ELSE s

(***************************************************************************)
(* Authentication.                                                         *)
(***************************************************************************)
\* third revision, getProvidedKey(req)
getProvidedKeyBearerFirst(h) ==
  LET apiKeyHeader == h.xApiKey
      authHeader == IF HTruthy(h.authorization) THEN h.authorization ELSE HStr(<<>>)
      bearerToken == HStr(Trim(StripBearer(authHeader.v)))
  IN  IF HTruthy(bearerToken) THEN bearerToken
      ELSE IF HTruthy(apiKeyHeader) THEN apiKeyHeader
      ELSE HStr(<<>>)
getProvidedKey(h) ==
  LET apiKeyHeader == h.xApiKey
      authHeader == IF HTruthy(h.authorization) THEN h.authorization ELSE HStr(<<>>)
      bearerToken == HStr(Trim(StripBearer(authHeader.v)))
  IN  IF HTruthy(apiKeyHeader) THEN apiKeyHeader
      ELSE IF HTruthy(bearerToken) THEN bearerToken
      ELSE HStr(<<>>)

\* third revision, requireApiKey(req, res): TRUE when the request may pass
requireApiKeyLoose(h, secret) == getProvidedKey(h) = secret
requireApiKey(h, secret) ==
  LET providedKey == getProvidedKey(h)
  IN  ~(~HTruthy(secret) \/ ~HTruthy(providedKey) \/ providedKey # secret)

\* final revision, step 1 of the handler: TRUE when the request may pass
apiKeyMatchesLoose(h, secret) == ~HTruthy(h.xApiKey) \/ h.xApiKey = secret
apiKeyMatchesAnySecret(h, secret) == h.xApiKey = secret
apiKeyMatches(h, secret) ==
  LET key == h.xApiKey
  IN  ~(~HTruthy(secret) \/ key # secret)

Authenticated(rv, h, secret) ==
  IF rv = 3 THEN requireApiKey(h, secret) ELSE apiKeyMatches(h, secret)

(***************************************************************************)
(* Messages. String(e) of a thrown error is a record naming the template   *)
(* and carrying exactly the values the template interpolates.              *)
(***************************************************************************)
PreviewLen == 200

NotJson == [t |-> "notjson"]

Min(a, b) == IF a <= b THEN a ELSE b

\* rawText.slice(0, n): the first n characters of the text named id
SliceNoCut(text, n) == [of |-> text.id, len |-> text.len]
Slice(text, n) == [of |-> text.id, len |-> Min(text.len, n)]

\* s.includes(w) on a header string
Includes(s, w) == \E i \in 1..Len(s.v) : s.v[i] = w

\* resp.ok
Ok(status) == status >= 200 /\ status <= 299

\* the first check of getShopifyAccessToken: the error thrown before any fetch
MissingEnvError == ErrStr([kind |-> "Missing Shopify environment variables"])

\* what fetch() rejects with on a network failure
FetchFailed == ErrStr([kind |-> "TypeError: fetch failed"])

\* what resp.text() and resp.json() reject with when the body stream fails
Terminated == ErrStr([kind |-> "TypeError: terminated"])

TypeErrorStr == ErrStr([kind |-> "TypeError"])

SyntaxErrorStr == ErrStr([kind |-> "SyntaxError"])

TokenFailedMsg(rv, status, contentType, rawText) ==
  IF rv = 3
  THEN ErrStr([kind |-> "Token request failed", status |-> status,
               preview |-> Slice(rawText, PreviewLen)])
  ELSE ErrStr([kind |-> "Token request failed", status |-> status,
               contentType |-> contentType,
               preview |-> Slice(rawText, PreviewLen)])

TokenMissingMsg(rv, contentType, rawText) ==
  IF rv = 3
  THEN ErrStr([kind |-> "Token missing access_token",
               preview |-> Slice(rawText, PreviewLen)])
  ELSE ErrStr([kind |-> "Token missing access_token",
               contentType |-> contentType,
               preview |-> Slice(rawText, PreviewLen)])

(***************************************************************************)
(* getShopifyAccessToken once its fetch and its body read have settled     *)
(* with reply (a rejection, a response whose body could not be read, or a  *)
(* response with its body): the token it returns, or the error it throws.  *)
(***************************************************************************)

tokenResultUnchecked(rv, reply) ==
  IF reply.kind = "reject" THEN Throws(FetchFailed)
  ELSE IF reply.kind = "aborted" THEN Throws(Terminated)
  ELSE IF reply.rawText.json = NotJson THEN Returns(U)
  ELSE Returns(OptProp(reply.rawText.json, "access_token"))
tokenResult(rv, reply) ==
  IF reply.kind = "reject" THEN Throws(FetchFailed)
  ELSE IF reply.kind = "aborted" THEN Throws(Terminated)
  ELSE
    LET contentType == IF HTruthy(reply.contentType) THEN reply.contentType
                       ELSE HStr(<<>>)
        rawText == reply.rawText
        declared == Includes(contentType, "application/json")
        data == IF declared THEN rawText.json ELSE Null
    IN  IF declared /\ rawText.json = NotJson THEN Throws(SyntaxErrorStr)
        ELSE IF ~Ok(reply.status)
             THEN Throws(TokenFailedMsg(rv, reply.status, contentType, rawText))
        ELSE IF ~Truthy(OptProp(data, "access_token"))
             THEN Throws(TokenMissingMsg(rv, contentType, rawText))
        ELSE Returns(Prop(data, "access_token"))

(***************************************************************************)
(* Step 2 of the handler: input validation. "" when the body is valid,     *)
(* else the error text of the 400 response.                                *)
(***************************************************************************)
validationErrorNoItems(rv, body) ==
  LET customer == Prop(body, "customer")
      shipping_address == Prop(body, "shipping_address")
      items == Prop(body, "items")
  IN  IF ~Truthy(OptProp(customer, "email"))
      THEN "Missing required field: customer.email"
      ELSE IF ~Truthy(OptProp(shipping_address, "address1"))
      THEN "Missing required field: shipping_address.address1"
      ELSE IF ~IsArray(items)
      THEN "Missing required field: items (must be a non-empty array)"
      ELSE ""
validationError(rv, body) ==
  LET customer == Prop(body, "customer")
      shipping_address == Prop(body, "shipping_address")
      items == Prop(body, "items")
  IN  IF ~Truthy(OptProp(customer, "email"))
      THEN IF rv = 3 THEN "Missing customer.email"
           ELSE "Missing required field: customer.email"
      ELSE IF ~Truthy(OptProp(shipping_address, "address1"))
      THEN IF rv = 3 THEN "Missing shipping_address.address1"
           ELSE "Missing required field: shipping_address.address1"
      ELSE IF ~IsArray(items) \/ Len(items.v) = 0
      THEN IF rv = 3 THEN "Missing items[]"
           ELSE "Missing required field: items (must be a non-empty array)"
      ELSE ""

(***************************************************************************)
(* Step 4 of the handler: the mutation's variables.                        *)
(***************************************************************************)
\* one element of items.map(...): the callback throws on a nullish element
\* (it.title) and when String(it.price) throws
lineItemOr(it) ==
  IF Nullish(it) THEN Throws(TypeErrorStr)
  ELSE LET price == ToStr(Prop(it, "price"))
       IN  IF ~price.ok THEN price
           ELSE Returns(Obj([title |-> Prop(it, "title"),
                             quantity |-> IF Truthy(Prop(it, "quantity"))
                                          THEN Prop(it, "quantity")
                                          ELSE Num(1),
                             originalUnitPrice |-> price.value]))
lineItem(it) ==
  IF Nullish(it) THEN Throws(TypeErrorStr)
  ELSE LET price == ToStr(Prop(it, "price"))
       IN  IF ~price.ok THEN price
           ELSE Returns(Obj([title |-> Prop(it, "title"),
                             quantity |-> Coalesce(Prop(it, "quantity"), Num(1)),
                             originalUnitPrice |-> price.value]))

\* items.map(...) throws what its first throwing callback throws
lineItemsThrow(items) == \E i \in 1..Len(items.v) : ~lineItem(items.v[i]).ok

lineItems(items) ==
  IF lineItemsThrow(items)
  THEN LET i == CHOOSE i \in 1..Len(items.v) :
                  /\ ~lineItem(items.v[i]).ok
                  /\ \A j \in 1..(i - 1) : lineItem(items.v[j]).ok
       IN  lineItem(items.v[i])
  ELSE Returns(Arr([i \in 1..Len(items.v) |-> lineItem(items.v[i]).value]))

shippingAddress(sa) ==
  Obj([firstName |-> Coalesce(Prop(sa, "firstName"), Str("")),
       lastName |-> Coalesce(Prop(sa, "lastName"), Str("")),
       address1 |-> Prop(sa, "address1"),
       address2 |-> Coalesce(Prop(sa, "address2"), Str("")),
       city |-> Coalesce(Prop(sa, "city"), Str("")),
       province |-> Coalesce(Prop(sa, "province"), Str("")),
       country |-> Coalesce(Prop(sa, "country"), Str("US")),
       zip |-> Coalesce(Prop(sa, "zip"), Str("")),
       phone |-> Coalesce(Prop(sa, "phone"), Str(""))])

\* the variables of the mutation, given the line items
variables(body, lineItemList) ==
  LET customer == Prop(body, "customer")
      shipping_address == Prop(body, "shipping_address")
      tags == Default(Prop(body, "tags"), Arr(<<>>))
      note == Default(Prop(body, "note"), Str(""))
  IN  Obj([input |-> Obj([email |-> Prop(customer, "email"),
                          shippingAddress |-> shippingAddress(shipping_address),
                          note |-> note,
                          tags |-> tags,
                          lineItems |-> lineItemList])])

(***************************************************************************)
(* The handler after the create-order fetch and its body read have settled *)
(* with reply: the response it sends.                                      *)
(***************************************************************************)
Response(status, body) == [status |-> status, body |-> body]

NoResponse == [status |-> 0]

ServerError(rv, e) == Response(500, [error |-> "Server error", details |-> e])

ShopifyErrorText(rv) ==
  IF rv = 3 THEN "Shopify error" ELSE "Shopify error creating draft order"

\* x.length: of an array, of a string, else the property of that name
LengthOf(x) ==
  IF IsArray(x) \/ x.t = "string" THEN Num(Len(x.v)) ELSE Prop(x, "length")

hasUserErrors(rv, userErrors) ==
  IF rv = 3
  THEN Truthy(userErrors) /\ Truthy(LengthOf(userErrors))
  ELSE IsArray(userErrors) /\ Len(userErrors.v) > 0

\* line 592: the details of the 400 response
errorDetailsWhole(userErrors, data) == data
errorDetails(userErrors, data) == Coalesce(userErrors, data)

\* lines 597-600: the body of the 200 response
successBodySwapped(draft) ==
  [draft_order_id |-> Prop(draft, "invoiceUrl"), invoice_url |-> Prop(draft, "id")]
successBody(draft) ==
  [draft_order_id |-> Prop(draft, "id"), invoice_url |-> Prop(draft, "invoiceUrl")]

orderResult(rv, reply) ==
  IF reply.kind = "reject" THEN ServerError(rv, FetchFailed)
  ELSE IF reply.kind = "aborted" THEN ServerError(rv, Terminated)
  ELSE IF reply.body = NotJson THEN ServerError(rv, SyntaxErrorStr)
  ELSE
    LET data == reply.body
        d1 == OptProp(data, "data")
        d2 == OptProp(d1, "draftOrderCreate")
        userErrors == OptProp(d2, "userErrors")
    IN  IF ~Ok(reply.status) \/ hasUserErrors(rv, userErrors)
        THEN Response(400, [error |-> ShopifyErrorText(rv),
                            details |-> errorDetails(userErrors, data)])
        ELSE IF Nullish(data) \/ Nullish(d1) \/ Nullish(d2)
                \/ Nullish(Prop(d2, "draftOrder"))
        THEN ServerError(rv, TypeErrorStr)
        ELSE Response(200, successBody(Prop(d2, "draftOrder")))

(***************************************************************************)
(* Inputs: the requests the relay receives and the replies of the upstream. *)
(***************************************************************************)
MaxItems == 2

SeqsUpTo(S, n) == UNION {[1..k -> S] : k \in 0..n}

TheKey == HStr(<<"K">>)

Secrets == {U, HStr(<<>>), TheKey}

BearerKey == HStr(<<"Bearer", " ", "K">>)

Customers ==
  {U, Null, Str("ann"), Obj([email |-> Str("")]), Obj([email |-> Str("a@b.c")])}

FullAddress ==
  Obj([firstName |-> Str("Ann"), lastName |-> Str("Lee"),
       address1 |-> Str("1 Main St"), address2 |-> Str("Apt 2"),
       city |-> Str("Reno"), province |-> Str("NV"), country |-> Str("CA"),
       zip |-> Str("89501"), phone |-> Str("555")])

Addresses ==
  {U,
   Obj([city |-> Str("Reno")]),
   Obj([address1 |-> Str("1 Main St")]),
   Obj([address1 |-> Str("1 Main St"), country |-> Null, zip |-> Null]),
   Obj([address1 |-> Str("1 Main St"), country |-> Str(""), city |-> Str("")]),
   Obj([address1 |-> Str("1 Main St"), country |-> Str("CA"),
        phone |-> Str("555")]),
   FullAddress}

Items ==
  {Obj([title |-> Str("Lens"), price |-> Num(150), quantity |-> Num(2)]),
   Obj([title |-> Str("Frame"), price |-> Str("9.99")]),
   Obj([title |-> Str("Case"), quantity |-> Num(0)]),
   Obj([price |-> Num(5), quantity |-> Null])}

\* prices that are no string and no number
OddPrices ==
  {Null, Bool(TRUE), Arr(<<>>), Arr(<<Num(1), Num(2)>>), Arr(<<Str("a")>>),
   Arr(<<Null, Arr(<<Num(3)>>)>>), Obj([amount |-> Num(1)]),
   Obj([toString |-> Num(1)]), Obj([toString |-> Null]),
   Arr(<<Obj([toString |-> Str("x")])>>)}

\* two of the lists hold an element the map callback cannot read
ItemLists ==
  {U, Str("Lens"), Arr(<<>>)}
    \cup {Arr(s) : s \in SeqsUpTo(Items, MaxItems) \ {<<>>}}
    \cup {Arr(<<Null>>), Arr(<<Obj([title |-> Str("Lens")]), Null>>)}
    \cup {Arr(<<Obj([title |-> Str("Lens"), price |-> p])>>) : p \in OddPrices}
    \cup {Arr(<<Obj([title |-> Str("Lens"), price |-> Obj([toString |-> Num(1)])]),
                 Null>>),
           Arr(<<Null,
                 Obj([title |-> Str("Lens"), price |-> Obj([toString |-> Num(1)])])>>)}

\* tags and note, as pairs
TagsAndNotes ==
  {<<U, U>>, <<Null, Str("gift")>>, <<Arr(<<Str("vip"), Str("rx")>>), Null>>}

\* req.body as express.json() hands it to the handler: a JSON object or array
Bodies ==
  {Obj([customer |-> c, shipping_address |-> a, items |-> i,
        tags |-> g[1], note |-> g[2]]) :
     c \in Customers, a \in Addresses, i \in ItemLists, g \in TagsAndNotes}
    \cup {Arr(<<>>)}

ValidBody ==
  Obj([customer |-> Obj([email |-> Str("a@b.c")]),
       shipping_address |-> Obj([address1 |-> Str("1 Main St")]),
       items |-> Arr(<<Obj([title |-> Str("Lens"), price |-> Num(150)])>>),
       tags |-> U, note |-> U])

\* a valid body whose one price cannot be converted to a string
UnpricedBody ==
  [ValidBody EXCEPT !.v.items =
     Arr(<<Obj([title |-> Str("Lens"), price |-> Obj([toString |-> Num(1)])])>>)]

Request(x, a, b) ==
  [headers |-> [xApiKey |-> x, authorization |-> a], body |-> b]

\* the requests of the final revision's runs
Headers ==
  {<<U, U>>, <<HStr(<<>>), U>>, <<TheKey, U>>, <<HStr(<<"X">>), U>>,
   <<HStr(<<"K", "X">>), U>>, <<U, BearerKey>>}

Requests == {Request(h[1], h[2], b) : h \in Headers, b \in Bodies}

\* header values as they reach the handler: no blank at either end
HdrChars == {"Bearer", "bearer", " ", "K", "X"}

HdrValues ==
  {U} \cup {HStr(s) : s \in {q \in SeqsUpTo(HdrChars, MaxHdrLen) :
                              q = <<>> \/ (~IsSpace(q[1]) /\ ~IsSpace(q[Len(q)]))}}

\* the requests of the third revision's runs
HeaderRequests ==
  {Request(x, a, b) :
     x \in {U, HStr(<<>>), TheKey, HStr(<<"X">>)},
     a \in HdrValues,
     b \in {ValidBody, UnpricedBody, Obj([customer |-> Null])}}

\* the requests of the concurrent runs
SmallRequests ==
  {Request(TheKey, U, ValidBody), Request(HStr(<<"X">>), U, ValidBody),
   Request(TheKey, U, Obj([customer |-> Null]))}

Text(id, len, json) == [id |-> id, len |-> len, json |-> json]

TokenText(tok) == Text(tok, 40, Obj([access_token |-> Str(tok)]))

TokenTexts ==
  {TokenText("tokA"), TokenText("tokB"),
   Text("empty-token", 19, Obj([access_token |-> Str("")])),
   Text("error-json", 26, Obj([error |-> Str("invalid_client")])),
   Text("null", 4, Null),
   Text("", 0, NotJson),
   Text("html-short", PreviewLen, NotJson),
   Text("html-long", PreviewLen + 1, NotJson)}

JsonType == HStr(<<"application/json">>)

ContentTypes ==
  {U, HStr(<<"text/html">>), JsonType,
   HStr(<<"application/json", "; charset=utf-8">>)}

Rejected == [kind |-> "reject"]

NoReply == [kind |-> "none"]

TokenResponse(status, ct, text) ==
  [kind |-> "response", status |-> status, contentType |-> ct, rawText |-> text]

\* what the token fetch settles with: a rejection, or a response whose
\* status and headers are there and whose body is still to be read
TokenHead(status, ct) == [kind |-> "head", status |-> status, contentType |-> ct]

TokenHeads ==
  {Rejected} \cup {TokenHead(s, c) : s \in {200, 403}, c \in ContentTypes}

\* the body stream failed before the whole body was read
BodyFailed == [t |-> "failed"]

Aborted(head) == [head EXCEPT !.kind = "aborted"]

\* what resp.text() settles with
TokenBodies == TokenTexts \cup {BodyFailed}

SmallTokenHeads ==
  {TokenHead(200, JsonType), TokenHead(403, HStr(<<"text/html">>))}

SmallTokenBodies ==
  {TokenText("tokA"), TokenText("tokB"), Text("html-long", PreviewLen + 1, NotJson)}

Draft(id, url) == Obj([id |-> Str(id), invoiceUrl |-> Str(url)])

Mutation(draft, errs) ==
  Obj([data |-> Obj([draftOrderCreate |->
                       Obj([draftOrder |-> draft, userErrors |-> errs])])])

SomeErrors ==
  Arr(<<Obj([field |-> Arr(<<Str("email")>>), message |-> Str("Email is invalid")])>>)

OrderBodies ==
  {Mutation(Draft("gid://1", "https://inv/1"), Arr(<<>>)),
   Mutation(Draft("gid://2", "https://inv/2"), U),
   Mutation(Draft("gid://2", "https://inv/2"), Null),
   Mutation(Null, SomeErrors),
   Mutation(Draft("gid://1", "https://inv/1"), SomeErrors),
   Mutation(Null, Arr(<<>>)),
   Mutation(Draft("gid://1", "https://inv/1"), Str("oops")),
   Mutation(Draft("gid://1", "https://inv/1"), Str("")),
   Obj([data |-> Obj([draftOrderCreate |-> Null])]),
   Obj([errors |-> Arr(<<Str("Throttled")>>)]),
   Null,
   NotJson}

OrderResponse(status, body) ==
  [kind |-> "response", status |-> status, body |-> body]

\* what the create-order fetch settles with
OrderHead(status) == [kind |-> "head", status |-> status]

OrderHeads == {Rejected} \cup {OrderHead(s) : s \in {200, 502}}

\* what resp.json() settles with: the parsed body, NotJson or BodyFailed
OrderReads == OrderBodies \cup {BodyFailed}

SmallOrderHeads == {OrderHead(200), OrderHead(502)}

SmallOrderReads ==
  {Mutation(Draft("gid://1", "https://inv/1"), Arr(<<>>)), NotJson}

(***************************************************************************)
(* The handler, one action per stretch of code between two awaits: of the  *)
(* fetches (465, 577), of the body reads (472, 586) and of the call of      *)
(* getShopifyAccessToken (539).                                            *)
(***************************************************************************)
TokenCall == [kind |-> "token"]

OrderCall(token, payload) ==
  [kind |-> "order", token |-> token, payload |-> payload]

\* the promise of getShopifyAccessToken() before it settles
Pending == [state |-> "pending"]

\* the token the handler resumes with at line 539, and sends: the value its
\* own call of getShopifyAccessToken() returned
SharedTokenForOrder(r) ==
  IF lastIssued # U THEN lastIssued ELSE tokenPromise[r].value
TokenForOrder(r) == tokenPromise[r].value

\* getShopifyAccessToken() of r settles; the handler, suspended at its await
\* (line 539), resumes in a later step
Settle(r, result) ==
  /\ tokenPromise' = [tokenPromise EXCEPT ![r] = result]
  /\ pc' = [pc EXCEPT ![r] = "tokenSettled"]
  /\ UNCHANGED res

Respond(r, response) ==
  /\ res' = [res EXCEPT ![r] = response]
  /\ pc' = [pc EXCEPT ![r] = "done"]

\* lines 518-539 and 451-469: from the arrival of the request to the await of
\* getShopifyAccessToken(), which has thrown or waits for its fetch
Start(r, q) ==
  /\ pc[r] = "idle"
  /\ req' = [req EXCEPT ![r] = q]
  /\ IF ~Authenticated(rev, q.headers, INBOUND_API_KEY)
     THEN /\ Respond(r, Response(401, [error |-> "Unauthorized"]))
          /\ UNCHANGED <<calls, tokenPromise>>
     ELSE IF validationError(rev, q.body) # ""
     THEN /\ Respond(r, Response(400, [error |-> validationError(rev, q.body)]))
          /\ UNCHANGED <<calls, tokenPromise>>
     ELSE IF ~shopifyEnv
     THEN Settle(r, Throws(MissingEnvError)) /\ UNCHANGED calls
     ELSE /\ calls' = [calls EXCEPT ![r] = Append(@, TokenCall)]
          /\ pc' = [pc EXCEPT ![r] = "awaitToken"]
          /\ UNCHANGED <<res, tokenPromise>>
  /\ UNCHANGED <<rev, INBOUND_API_KEY, shopifyEnv, tokReply, accessToken,
                 ordReply, lastIssued>>

\* the token the upstream handed out in reply, if any
Issued(reply) ==
  IF reply.kind = "response" /\ reply.rawText.json # NotJson
     /\ Truthy(OptProp(reply.rawText.json, "access_token"))
  THEN Prop(reply.rawText.json, "access_token")
  ELSE U

\* lines 465-472: the token fetch settles; a rejection leaves
\* getShopifyAccessToken, a response goes on to resp.text()
TokenFetched(r, head) ==
  /\ pc[r] = "awaitToken"
  /\ tokReply' = [tokReply EXCEPT ![r] = head]
  /\ IF head.kind = "reject"
     THEN Settle(r, tokenResult(rev, head))
     ELSE /\ pc' = [pc EXCEPT ![r] = "readToken"]
          /\ UNCHANGED <<res, tokenPromise>>
  /\ UNCHANGED <<rev, INBOUND_API_KEY, shopifyEnv, req, accessToken, ordReply,
                 calls, lastIssued>>

\* lines 472-498: resp.text() settles and getShopifyAccessToken returns or
\* throws
TokenRead(r, text) ==
  /\ pc[r] = "readToken"
  /\ LET reply == IF text = BodyFailed THEN Aborted(tokReply[r])
                  ELSE TokenResponse(tokReply[r].status,
                                     tokReply[r].contentType, text)
     IN  /\ tokReply' = [tokReply EXCEPT ![r] = reply]
         /\ lastIssued' = IF Issued(reply) # U THEN Issued(reply) ELSE lastIssued
         /\ Settle(r, tokenResult(rev, reply))
  /\ UNCHANGED <<rev, INBOUND_API_KEY, shopifyEnv, req, accessToken, ordReply,
                 calls>>

\* lines 539-584 and 601-604: the handler resumes from its await of
\* getShopifyAccessToken(): in its catch when the call threw, else with the
\* token, to build the payload and start the create-order fetch
SendOrder(r) ==
  /\ pc[r] = "tokenSettled"
  /\ IF ~tokenPromise[r].ok
     THEN /\ Respond(r, ServerError(rev, tokenPromise[r].error))
          /\ UNCHANGED <<calls, accessToken>>
     ELSE LET items == lineItems(Prop(req[r].body, "items"))
          IN  /\ accessToken' = [accessToken EXCEPT ![r] = TokenForOrder(r)]
              /\ IF ~items.ok
                 THEN Respond(r, ServerError(rev, items.error)) /\ UNCHANGED calls
                 ELSE /\ calls' = [calls EXCEPT ![r] =
                                     Append(@, OrderCall(TokenForOrder(r),
                                                         variables(req[r].body,
                                                                   items.value)))]
                      /\ pc' = [pc EXCEPT ![r] = "awaitOrder"]
                      /\ UNCHANGED res
  /\ UNCHANGED <<rev, INBOUND_API_KEY, shopifyEnv, req, tokReply, tokenPromise,
                 ordReply, lastIssued>>

\* lines 577-586: the create-order fetch settles; a response goes on to
\* resp.json()
OrderFetched(r, head) ==
  /\ pc[r] = "awaitOrder"
  /\ ordReply' = [ordReply EXCEPT ![r] = head]
  /\ IF head.kind = "reject"
     THEN Respond(r, orderResult(rev, head))
     ELSE pc' = [pc EXCEPT ![r] = "readOrder"] /\ UNCHANGED res
  /\ UNCHANGED <<rev, INBOUND_API_KEY, shopifyEnv, req, tokReply, tokenPromise,
                 accessToken, calls, lastIssued>>

\* lines 586-604: resp.json() settles and the handler answers
OrderRead(r, body) ==
  /\ pc[r] = "readOrder"
  /\ LET reply == IF body = BodyFailed THEN Aborted(ordReply[r])
                  ELSE OrderResponse(ordReply[r].status, body)
     IN  /\ ordReply' = [ordReply EXCEPT ![r] = reply]
         /\ Respond(r, orderResult(rev, reply))
  /\ UNCHANGED <<rev, INBOUND_API_KEY, shopifyEnv, req, tokReply, tokenPromise,
                 accessToken, calls, lastIssued>>

NoRequest == Request(U, U, U)

InitRequests ==
  /\ pc = [r \in Reqs |-> "idle"]
  /\ req = [r \in Reqs |-> NoRequest]
  /\ tokReply = [r \in Reqs |-> NoReply]
  /\ tokenPromise = [r \in Reqs |-> Pending]
  /\ accessToken = [r \in Reqs |-> U]
  /\ ordReply = [r \in Reqs |-> NoReply]
  /\ calls = [r \in Reqs |-> <<>>]
  /\ res = [r \in Reqs |-> NoResponse]
  /\ lastIssued = U

(***************************************************************************)
(* Spec: one request to the final revision, over the full input sets.      *)
(***************************************************************************)
Init ==
  /\ rev = 4
  /\ INBOUND_API_KEY \in Secrets
  /\ shopifyEnv \in BOOLEAN
  /\ InitRequests

Receive == pc[1] = "idle" /\ \E q \in Requests : Start(1, q)

TokenArrives ==
  pc[1] = "awaitToken" /\ \E head \in TokenHeads : TokenFetched(1, head)

TokenBodyArrives ==
  pc[1] = "readToken" /\ \E text \in TokenBodies : TokenRead(1, text)

Resume == SendOrder(1)

OrderArrives ==
  pc[1] = "awaitOrder" /\ \E head \in OrderHeads : OrderFetched(1, head)

OrderBodyArrives ==
  pc[1] = "readOrder" /\ \E body \in OrderReads : OrderRead(1, body)

Next ==
  \/ Receive
  \/ TokenArrives
  \/ TokenBodyArrives
  \/ Resume
  \/ OrderArrives
  \/ OrderBodyArrives

Spec == Init /\ [][Next]_vars

(***************************************************************************)
(* SpecRev3: one request to the third revision, over the header values.    *)
(***************************************************************************)
InitRev3 ==
  /\ rev = 3
  /\ INBOUND_API_KEY \in Secrets
  /\ shopifyEnv \in BOOLEAN
  /\ InitRequests

ReceiveRev3 == pc[1] = "idle" /\ \E q \in HeaderRequests : Start(1, q)

NextRev3 ==
  \/ ReceiveRev3
  \/ TokenArrives
  \/ TokenBodyArrives
  \/ Resume
  \/ OrderArrives
  \/ OrderBodyArrives

SpecRev3 == InitRev3 /\ [][NextRev3]_vars

(***************************************************************************)
(* SpecConc: NumReq requests to the final revision, handled concurrently.  *)
(***************************************************************************)
InitConc ==
  /\ rev = 4
  /\ INBOUND_API_KEY = TheKey
  /\ shopifyEnv \in BOOLEAN
  /\ InitRequests

ReceiveConc == \E r \in Reqs, q \in SmallRequests : Start(r, q)

TokenArrivesConc ==
  \E r \in Reqs, head \in SmallTokenHeads : TokenFetched(r, head)

TokenBodyArrivesConc ==
  \E r \in Reqs, text \in SmallTokenBodies : TokenRead(r, text)

ResumeConc == \E r \in Reqs : SendOrder(r)

OrderArrivesConc ==
  \E r \in Reqs, head \in SmallOrderHeads : OrderFetched(r, head)

OrderBodyArrivesConc ==
  \E r \in Reqs, body \in SmallOrderReads : OrderRead(r, body)

NextConc ==
  \/ ReceiveConc
  \/ TokenArrivesConc
  \/ TokenBodyArrivesConc
  \/ ResumeConc
  \/ OrderArrivesConc
  \/ OrderBodyArrivesConc

SpecConc == InitConc /\ [][NextConc]_vars

(***************************************************************************)
(* Properties.                                                             *)
(***************************************************************************)
Handled(r) == pc[r] # "idle"

Done(r) == pc[r] = "done"

Key(r) == req[r].headers.xApiKey

\* the request carries the configured secret in X-Api-Key
HasTheSecret(r) == HTruthy(INBOUND_API_KEY) /\ Key(r) = INBOUND_API_KEY

Field(x, f) == OptProp(x, f)

Body(r) == req[r].body

EmailOf(r) == Field(Field(Body(r), "customer"), "email")

Address1Of(r) == Field(Field(Body(r), "shipping_address"), "address1")

ItemsOf(r) == Field(Body(r), "items")

Absent(x) == Nullish(x)

\* C1: a request whose X-Api-Key header is absent or differs from the
\* configured inbound secret is answered 401, whatever its body, and the relay
\* makes no outbound call for it (no token exchange, no create-order call).
C1_BadKeyIs401 ==
  \A r \in Reqs :
    (Handled(r) /\ (Key(r) = U \/ Key(r) # INBOUND_API_KEY))
      => /\ Done(r)
         /\ res[r].status = 401
         /\ calls[r] = <<>>

\* a well-formed request with a wrong key, the upstream configured: 401
C1_Witness ==
  /\ Done(1)
  /\ INBOUND_API_KEY = TheKey
  /\ shopifyEnv
  /\ Key(1) = HStr(<<"X">>)
  /\ validationError(rev, Body(1)) = ""
  /\ res[1].status = 401

\* C2: an authenticated request in which customer.email is missing, or
\* shipping_address.address1 is missing, or items is absent, not a sequence or
\* empty, is answered 400 and the relay makes no outbound call for it.
C2_MissingFieldIs400 ==
  \A r \in Reqs :
    (/\ Handled(r)
     /\ HasTheSecret(r)
     /\ \/ Absent(EmailOf(r))
        \/ Absent(Address1Of(r))
        \/ Absent(ItemsOf(r))
        \/ ~IsArray(ItemsOf(r))
        \/ ItemsOf(r) = Arr(<<>>))
      => /\ Done(r)
         /\ res[r].status = 400
         /\ calls[r] = <<>>

\* an authenticated request whose only defect is an empty items list: 400
C2_Witness ==
  /\ Done(1)
  /\ HasTheSecret(1)
  /\ shopifyEnv
  /\ Truthy(EmailOf(1))
  /\ Truthy(Address1Of(1))
  /\ ItemsOf(1) = Arr(<<>>)
  /\ res[1].status = 400

\* the create-order reply of r is a successful mutation: an OK response, no
\* field-level errors, a draft order present
MutationSucceeded(r) ==
  /\ ordReply[r].kind = "response"
  /\ Ok(ordReply[r].status)
  /\ ordReply[r].body # NotJson
  /\ LET doc == Field(Field(ordReply[r].body, "data"), "draftOrderCreate")
     IN  /\ Field(doc, "draftOrder").t = "object"
         /\ Field(doc, "userErrors") \in {U, Null, Arr(<<>>)}

DraftOf(r) ==
  Field(Field(Field(ordReply[r].body, "data"), "draftOrderCreate"), "draftOrder")

\* the token exchange of r succeeded: an OK JSON response carrying a token
TokenSucceeded(r) ==
  /\ tokReply[r].kind = "response"
  /\ Ok(tokReply[r].status)
  /\ tokReply[r].rawText.json # NotJson
  /\ Truthy(Field(tokReply[r].rawText.json, "access_token"))

\* C3: an authenticated, well-formed request whose token exchange succeeds and
\* whose create-order mutation succeeds is answered 200 with draft_order_id
\* and invoice_url equal to the id and invoiceUrl the mutation returned.
C3_SuccessReturnsDraft ==
  \A r \in Reqs :
    (/\ Done(r)
     /\ HasTheSecret(r)
     /\ Truthy(EmailOf(r)) /\ Truthy(Address1Of(r))
     /\ IsArray(ItemsOf(r)) /\ ItemsOf(r) # Arr(<<>>)
     /\ TokenSucceeded(r)
     /\ MutationSucceeded(r))
      => /\ res[r].status = 200
         /\ res[r].body = [draft_order_id |-> DraftOf(r).v.id,
                           invoice_url |-> DraftOf(r).v.invoiceUrl]

\* the second draft of the reply set comes back to the caller
C3_Witness ==
  /\ Done(1)
  /\ HasTheSecret(1)
  /\ TokenSucceeded(1)
  /\ MutationSucceeded(1)
  /\ DraftOf(1) = Draft("gid://2", "https://inv/2")
  /\ res[1].status = 200
  /\ res[1].body.invoice_url = Str("https://inv/2")

UserErrorsOf(r) ==
  Field(Field(Field(ordReply[r].body, "data"), "draftOrderCreate"), "userErrors")

HasUserErrors(r) ==
  /\ ordReply[r].kind = "response"
  /\ ordReply[r].body # NotJson
  /\ IsArray(UserErrorsOf(r))
  /\ UserErrorsOf(r) # Arr(<<>>)

\* C4: when the create-order response carries a non-empty list of userErrors
\* the answer is 400 and its details field is exactly that list, whether or
\* not the response also carries a draft order.
C4_UserErrorsAre400 ==
  \A r \in Reqs :
    (Done(r) /\ HasUserErrors(r))
      => /\ res[r].status = 400
         /\ res[r].body.details = UserErrorsOf(r)

\* an OK response with a draft order and userErrors: 400 with the errors
C4_Witness ==
  /\ Done(1)
  /\ HasUserErrors(1)
  /\ Ok(ordReply[1].status)
  /\ DraftOf(1).t = "object"
  /\ res[1].status = 400
  /\ res[1].body.details = SomeErrors

NonOkOrderReply(r) == ordReply[r].kind = "response" /\ ~Ok(ordReply[r].status)

\* C5: when the create-order call returns a non-OK response, whatever its body
\* (JSON or not), the answer is 400 with a details field; it is never 200 or
\* 500.
C5_NonOkIs400 ==
  \A r \in Reqs :
    (Done(r) /\ NonOkOrderReply(r))
      => /\ res[r].status = 400
         /\ "details" \in DOMAIN res[r].body

\* C5, for the non-OK responses whose body is JSON: the answer is 400 and its
\* details are the userErrors of the body or, without them, the body itself.
C5_NonOkJsonIs400 ==
  \A r \in Reqs :
    (Done(r) /\ NonOkOrderReply(r) /\ ordReply[r].body # NotJson)
      => /\ res[r].status = 400
         /\ res[r].body.details =
              IF Absent(UserErrorsOf(r)) THEN ordReply[r].body ELSE UserErrorsOf(r)

NonJsonToken(r) ==
  tokReply[r].kind = "response" /\ tokReply[r].rawText.json = NotJson

DeclaredType(r) ==
  IF tokReply[r].contentType = U THEN HStr(<<>>) ELSE tokReply[r].contentType

DeclaresJson(r) ==
  DeclaredType(r) \in {JsonType, HStr(<<"application/json", "; charset=utf-8">>)}

\* the first PreviewLen characters of the token response's body
PreviewOf(r) ==
  [of |-> tokReply[r].rawText.id,
   len |-> IF tokReply[r].rawText.len > PreviewLen THEN PreviewLen
           ELSE tokReply[r].rawText.len]

\* the handler of r is in its catch or past it: getShopifyAccessToken threw
\* and the handler has still to resume, or the 500 is sent
Failing(r) ==
  \/ pc[r] = "tokenSettled" /\ ~tokenPromise[r].ok /\ res[r] = NoResponse
  \/ Done(r) /\ res[r].status = 500

\* C6 as stated: when the token endpoint returns a body that is not JSON, for
\* any status and any declared content type, the answer is 500 with a details
\* string giving the status, the content type and a body preview of at most
\* 200 characters, and no create-order call is made.
C6_NonJsonTokenDescribed ==
  \A r \in Reqs :
    NonJsonToken(r)
      => /\ Failing(r)
         /\ calls[r] = <<TokenCall>>
         /\ Done(r)
              => /\ res[r].body.details.t = "errstr"
                 /\ {"status", "contentType", "preview"}
                      \subseteq DOMAIN res[r].body.details.v
                 /\ res[r].body.details.v.status = tokReply[r].status
                 /\ res[r].body.details.v.contentType = DeclaredType(r)
                 /\ res[r].body.details.v.preview = PreviewOf(r)

\* C6, amended: when the token endpoint returns a body that is not JSON the
\* handler goes to its catch, no create-order call is made and the answer,
\* once sent, is 500 with the error getShopifyAccessToken threw as details; the
\* details are the JSON parse error when the declared content type contains
\* application/json, else the status, content type and preview (at most 200
\* characters) when the status is not OK, else the content type and preview
\* without the status.
C6_NonJsonTokenIs500 ==
  \A r \in Reqs :
    NonJsonToken(r)
      => /\ Failing(r)
         /\ calls[r] = <<TokenCall>>
         /\ ~tokenPromise[r].ok
         /\ Done(r) => res[r].body.details = tokenPromise[r].error
         /\ tokenPromise[r].error.t = "errstr"
         /\ LET m == tokenPromise[r].error.v
            IN  IF DeclaresJson(r) THEN m = [kind |-> "SyntaxError"]
                ELSE /\ m.contentType = DeclaredType(r)
                     /\ m.preview = PreviewOf(r)
                     /\ m.preview.len <= PreviewLen
                     /\ IF Ok(tokReply[r].status)
                        THEN DOMAIN m = {"kind", "contentType", "preview"}
                        ELSE /\ DOMAIN m = {"kind", "status", "contentType", "preview"}
                             /\ m.status = tokReply[r].status

\* an HTML error page longer than the preview, status 403: 500 with the preview
C6_Witness ==
  /\ Done(1)
  /\ NonJsonToken(1)
  /\ tokReply[1].status = 403
  /\ tokReply[1].contentType = HStr(<<"text/html">>)
  /\ tokReply[1].rawText.len = PreviewLen + 1
  /\ res[1].status = 500
  /\ res[1].body.details.v.preview.len = PreviewLen

\* C7: a request makes at most two outbound calls, first the token exchange,
\* then the create-order call; the create-order call is made only after the
\* token exchange of the same request succeeded and returned a token, and no
\* call is made twice.
C7_TwoCallsInOrder ==
  \A r \in Reqs :
    /\ Len(calls[r]) <= 2
    /\ Len(calls[r]) >= 1 => calls[r][1] = TokenCall
    /\ Len(calls[r]) = 2
         => /\ calls[r][2].kind = "order"
            /\ TokenSucceeded(r)
            /\ Truthy(calls[r][2].token)
    /\ Done(r) /\ res[r].status \in {401, 400} /\ ordReply[r] = NoReply
         => calls[r] = <<>>

\* a request that made both calls and was answered
C7_Witness ==
  /\ Done(1)
  /\ Len(calls[1]) = 2
  /\ calls[1][1].kind = "token"
  /\ calls[1][2].kind = "order"

OptionalAddressFields ==
  {"firstName", "lastName", "address2", "city", "province", "zip", "phone"}

Sent(r) == calls[r][2].payload.v.input.v

\* what the payload of r carries for everything but the prices
PayloadDefaults(r) ==
  LET in == Body(r)
      out == Sent(r)
      sa == Field(in, "shipping_address")
      items == ItemsOf(r).v
  IN  /\ out.email = EmailOf(r)
      /\ out.shippingAddress.v.address1 = Address1Of(r)
      /\ \A f \in OptionalAddressFields :
           out.shippingAddress.v[f] =
             IF Absent(Field(sa, f)) THEN Str("") ELSE Field(sa, f)
      /\ out.shippingAddress.v.country =
           IF Absent(Field(sa, "country")) THEN Str("US") ELSE Field(sa, "country")
      /\ out.tags = IF Field(in, "tags") = U THEN Arr(<<>>) ELSE Field(in, "tags")
      /\ out.note = IF Field(in, "note") = U THEN Str("") ELSE Field(in, "note")
      /\ Len(out.lineItems.v) = Len(items)
      /\ \A i \in 1..Len(items) :
           /\ out.lineItems.v[i].v.title = Field(items[i], "title")
           /\ out.lineItems.v[i].v.quantity =
                IF Absent(Field(items[i], "quantity")) THEN Num(1)
                ELSE Field(items[i], "quantity")

\* C8 as stated: in the create-order payload an item without quantity has
\* quantity 1, an address without country has country "US", every other
\* absent address field is "", omitted tags are the empty list and an omitted
\* note is ""; every provided field, the prices included, is sent unchanged,
\* and the line items keep the number and order of the items.
C8_PayloadPassThrough ==
  \A r \in Reqs :
    Len(calls[r]) = 2
      => /\ PayloadDefaults(r)
         /\ \A i \in 1..Len(ItemsOf(r).v) :
              ~Absent(Field(ItemsOf(r).v[i], "price"))
                => Sent(r).lineItems.v[i].v.originalUnitPrice
                     = Field(ItemsOf(r).v[i], "price")

\* C8, amended: as stated, except that the price of an item is sent as a
\* string under originalUnitPrice: a string price unchanged, a number as its
\* decimal text, an absent price as the text "undefined", a null price as
\* "null", a boolean as "true" or "false", a list as the texts of its elements
\* joined by "," (none for the empty list) and any other object as
\* "[object Object]". An item whose price is an object with a key toString of
\* its own cannot be converted: no create-order call is made and the answer is
\* 500. A null quantity or address field counts as absent; null tags or a null
\* note count as provided.
C8_PayloadMapping ==
  \A r \in Reqs :
    /\ Len(calls[r]) = 2
         => /\ PayloadDefaults(r)
            /\ \A i \in 1..Len(ItemsOf(r).v) :
                 LET price == Field(ItemsOf(r).v[i], "price")
                     sent == Sent(r).lineItems.v[i].v
                 IN  /\ DOMAIN sent = {"title", "quantity", "originalUnitPrice"}
                     /\ sent.originalUnitPrice.t = "string"
                     /\ price.t = "string" => sent.originalUnitPrice = price
                     /\ price.t = "number"
                          => sent.originalUnitPrice = Str(ToString(price.v))
                     /\ price = U => sent.originalUnitPrice = Str("undefined")
                     /\ price = Null => sent.originalUnitPrice = Str("null")
                     /\ price = Bool(TRUE) => sent.originalUnitPrice = Str("true")
                     /\ price = Arr(<<>>) => sent.originalUnitPrice = Str("")
                     /\ price = Arr(<<Num(1), Num(2)>>)
                          => sent.originalUnitPrice = Str("1,2")
                     /\ price = Arr(<<Str("a")>>)
                          => sent.originalUnitPrice = Str("a")
                     /\ price.t = "object"
                          => sent.originalUnitPrice = Str("[object Object]")
    /\ (/\ Handled(r)
        /\ IsArray(ItemsOf(r))
        /\ \E i \in 1..Len(ItemsOf(r).v) :
             LET price == Field(ItemsOf(r).v[i], "price")
             IN  price.t = "object" /\ "toString" \in DOMAIN price.v)
         => /\ Len(calls[r]) < 2
            /\ (Done(r) /\ tokenPromise[r] # Pending /\ tokenPromise[r].ok)
                 => /\ res[r].status = 500
                    /\ res[r].body.details \in {ConvertError, TypeErrorStr}

\* two items, the second without quantity, an address without country and no
\* tags or note: quantity 1, country "US", empty tags and note are sent
C8_Witness ==
  /\ Len(calls[1]) = 2
  /\ Len(ItemsOf(1).v) = 2
  /\ Field(ItemsOf(1).v[1], "quantity") = Num(0)
  /\ Field(ItemsOf(1).v[2], "quantity") = U
  /\ Field(Field(Body(1), "shipping_address"), "country") = U
  /\ Field(Body(1), "tags") = U
  /\ Sent(1).lineItems.v[1].v.quantity = Num(0)
  /\ Sent(1).lineItems.v[2].v.quantity = Num(1)
  /\ Sent(1).shippingAddress.v.country = Str("US")
  /\ Sent(1).tags = Arr(<<>>)
  /\ Sent(1).note = Str("")

OrderCallsOf(r) == {i \in 1..Len(calls[r]) : calls[r][i].kind = "order"}

\* C9: under any interleaving of concurrently handled requests, a request that
\* reaches the create-order call has made its own token exchange and sends the
\* token that exchange returned, never one obtained by another request; what
\* a request is answered and sends depends on nothing another request wrote.
C9_OwnToken ==
  /\ \A r \in Reqs : \A i \in OrderCallsOf(r) :
       /\ i = 2
       /\ calls[r][1] = TokenCall
       /\ TokenSucceeded(r)
       /\ calls[r][i].token = Field(tokReply[r].rawText.json, "access_token")
  /\ \A r1, r2 \in Reqs :
       (/\ Done(r1) /\ Done(r2)
        /\ req[r1] = req[r2]
        /\ tokReply[r1] = tokReply[r2]
        /\ ordReply[r1] = ordReply[r2])
         => res[r1] = res[r2] /\ calls[r1] = calls[r2]

\* request 1 sends tokA although the upstream has since handed tokB to
\* request 2, which has not yet sent its own call
C9_Witness ==
  /\ Len(calls[1]) = 2
  /\ calls[1][2].token = Str("tokA")
  /\ lastIssued = Str("tokB")
  /\ tokenPromise[2] = Returns(Str("tokB"))
  /\ pc[2] = "tokenSettled"

Authorization(r) == req[r].headers.authorization

\* the request passed the authentication step
Accepted(r) == Handled(r) /\ res[r].status # 401

Rejected401(r) == Done(r) /\ res[r].status = 401 /\ calls[r] = <<>>

Blanks(n) == [i \in 1..n |-> " "]

\* 'Bearer <key>' in either case, with one blank or more
BearerForms(key) ==
  {HStr(<<w>> \o Blanks(n) \o key.v) : w \in {"Bearer", "bearer"}, n \in 1..MaxHdrLen}

\* C10 as stated, for the third revision: a request whose Authorization header
\* is 'Bearer <configured secret>' is accepted, and a request providing any
\* other value in X-Api-Key or in Authorization is answered 401.
C10_EitherHeader ==
  \A r \in Reqs :
    (Handled(r) /\ HTruthy(INBOUND_API_KEY))
      => /\ Authorization(r) \in BearerForms(INBOUND_API_KEY) => Accepted(r)
         /\ (HTruthy(Key(r)) /\ Key(r) # INBOUND_API_KEY) => Rejected401(r)
         /\ (/\ HTruthy(Authorization(r))
             /\ Authorization(r)
                  \notin {INBOUND_API_KEY} \cup BearerForms(INBOUND_API_KEY))
              => Rejected401(r)

\* C10, amended: in the third revision a request passes authentication if and
\* only if a secret is configured and either X-Api-Key equals it, or X-Api-Key
\* is absent or empty and Authorization is the secret, bare or as
\* 'Bearer <secret>'; every other request is answered 401.
C10_ProvidedKey ==
  \A r \in Reqs :
    Handled(r)
      => /\ Accepted(r) <=>
              /\ HTruthy(INBOUND_API_KEY)
              /\ \/ Key(r) = INBOUND_API_KEY
                 \/ /\ ~HTruthy(Key(r))
                    /\ Authorization(r)
                         \in {INBOUND_API_KEY} \cup BearerForms(INBOUND_API_KEY)
         /\ ~Accepted(r) => Rejected401(r)

\* 'bearer K' alone is accepted by the third revision
C10_Witness ==
  /\ rev = 3
  /\ Accepted(1)
  /\ INBOUND_API_KEY = TheKey
  /\ Key(1) = U
  /\ Authorization(1) = HStr(<<"bearer", " ", "K">>)
  /\ Len(calls[1]) >= 1

\* no inbound secret is configured: INBOUND_API_KEY is unset or empty
NoSecret == INBOUND_API_KEY = U \/ INBOUND_API_KEY = HStr(<<>>)

\* C11: when no inbound secret is configured (INBOUND_API_KEY unset or empty)
\* every request is answered 401 and no outbound call is made for it, also a
\* request without a key header and a request with an empty key: no request
\* is authenticated without a configured secret.
C11_NoSecretRejectsAll ==
  \A r \in Reqs :
    (Handled(r) /\ NoSecret)
      => /\ Done(r)
         /\ res[r].status = 401
         /\ calls[r] = <<>>
         /\ tokReply[r] = NoReply
         /\ ordReply[r] = NoReply

\* an empty secret and a well-formed request whose X-Api-Key is empty too: 401
C11_Witness ==
  /\ Done(1)
  /\ INBOUND_API_KEY = HStr(<<>>)
  /\ Key(1) = HStr(<<>>)
  /\ shopifyEnv
  /\ validationError(rev, Body(1)) = ""
  /\ res[1].status = 401
  /\ calls[1] = <<>>

====
